---- MODULE Spec2Model ----
(***************************************************************************)
(* Model of the semester planner: the CSV loader (main.py), the schedule   *)
(* model (models.py), the payload builder and the browser-side canvas      *)
(* script (visualize.py).                                                  *)
(*                                                                         *)
(* Pixel coordinates are exact rationals kept as scaled integers: every    *)
(* vertical coordinate is in units of 1/YS pixel, YS = END_MIN - START_MIN,*)
(* and every horizontal one in units of 1/XS pixel, XS a common multiple   *)
(* of the possible lane counts.  The script's floating point rounding is   *)
(* not modelled.                                                           *)
(***************************************************************************)
EXTENDS Integers, Sequences, FiniteSets, TLC

VARIABLES
    pc,                 \* "load" (reading the CSV), "ui" (page open), "error" (generation raised)
    subject,            \* main.py: the Subject of the row being read, or NoSubject
    timetable,          \* main.py: Timetable.subjects
    error,              \* the exception generate_html ended with, or NoError
    DATA,               \* visualize.py: the payload embedded in the page
    visibleSubjects,    \* script: const visibleSubjects
    selectedCourseIds,  \* script: const selectedCourseIds
    checked,            \* script: cb.checked of each subject's checkbox
    hitboxes,           \* script: let hitboxes
    statusText,         \* script: #statusText, as <<text, number, isDanger>>
    exported,           \* the image downloaded by the most recent event, or NoImage
    last                \* history: the most recent event and the view state it started from

vars == <<pc, subject, timetable, error, DATA, visibleSubjects, selectedCourseIds,
          checked, hitboxes, statusText, exported, last>>

(***************************************************************************)
(* Bounds of the model.                                                    *)
(***************************************************************************)
\* courses read from the CSV in one run of Spec and of SpecLoad
MaxCourses == 2
\* rows of the CSV
MaxRows == 2
\* courses of the timetable in SpecWindow
WindowCourses == 2
\* courses of one timetable in SpecBlocks
BlockCourses == 2
\* courses of one timetable in SpecLayout
LayoutCourses == 3

(***************************************************************************)
(* Generic helpers.                                                        *)
(***************************************************************************)
Max(a, b) == IF a >= b THEN a ELSE b

Min(a, b) == IF a <= b THEN a ELSE b

Range(s) == {s[i] : i \in 1..Len(s)}

RECURSIVE Gcd(_, _)
Gcd(a, b) == IF b = 0 THEN a ELSE Gcd(b, a % b)

RECURSIVE LcmUpTo(_)
LcmUpTo(n) == IF n <= 1 THEN 1 ELSE LET l == LcmUpTo(n - 1) IN (l * n) \div Gcd(l, n)

\* lexicographic < on two integer tuples of the same length (Python tuple order)
RECURSIVE TupleLess(_, _)
TupleLess(a, b) ==
    IF a = <<>> THEN FALSE
    ELSE IF Head(a) # Head(b) THEN Head(a) < Head(b)
    ELSE TupleLess(Tail(a), Tail(b))

\* the order of the strings used as subject and course codes (Python str order)
StrRank(s) ==
    CASE s = "A" -> 1
      [] s = "A__B" -> 2
      [] s = "B" -> 3
      [] s = "B__L" -> 4
      [] s = "L" -> 5
      [] s = "M" -> 6
      [] OTHER -> 0

(***************************************************************************)
(* models.py                                                               *)
(***************************************************************************)
DAYS_OF_WEEK == <<"H", "K", "SZE", "CS", "P">>

\* list.index
DayIndex(d) == CHOOSE i \in 1..Len(DAYS_OF_WEEK) : DAYS_OF_WEEK[i] = d

\* Time.from_string on the text "h:m", given as <<h, m>>
from_string(value) == [hour |-> value[1], minute |-> value[2]]

to_minutes(t) == t.hour * 60 + t.minute

\* The course time text "day:h:m-h:m", given by its parts.
TimeText(day, sh, sm, eh, em) == [day |-> day, start |-> <<sh, sm>>, end |-> <<eh, em>>]

\* Course.__init__: stores the code and the text as given
Course(code, time) == [code |-> code, time |-> time]

\* Course.get_time: the ClassTime, or the ValueError it raises
get_time(course) ==
    IF course.time.day \notin Range(DAYS_OF_WEEK)
    THEN [ok |-> FALSE, raised |-> "ValueError"]
    ELSE [ok |-> TRUE,
          day |-> course.time.day,
          start_time |-> from_string(course.time.start),
          end_time |-> from_string(course.time.end)]

\* Subject.__init__
Subject(code) == [code |-> code, courses |-> <<>>]

add_course(s, course) == [s EXCEPT !.courses = Append(@, course)]

add_subject(tt, s) == Append(tt, s)

(***************************************************************************)
(* visualize.py: the payload builder                                       *)
(***************************************************************************)
\* _course_to_dto, for a course whose get_time returned; the id is the f-string
\* f"{subject.code}__{course.code}__{index}"
course_to_dto(subj, course, index) ==
    LET ct == get_time(course) IN
    [id |-> subj.code \o "__" \o course.code \o "__" \o ToString(index),
     subject_code |-> subj.code,
     course_code |-> course.code,
     day |-> ct.day,
     start_min |-> to_minutes(ct.start_time),
     end_min |-> to_minutes(ct.end_time)]

RECURSIVE SeqMin(_)
SeqMin(s) == IF Len(s) = 1 THEN s[1] ELSE Min(s[1], SeqMin(Tail(s)))

RECURSIVE SeqMax(_)
SeqMax(s) == IF Len(s) = 1 THEN s[1] ELSE Max(s[1], SeqMax(Tail(s)))

\* _compute_time_bounds without its last step, the window forced to an hour
compute_time_bounds_unforced(courses) ==
    IF courses = <<>> THEN <<8 * 60, 20 * 60>>
    ELSE
        LET min_start0 == SeqMin([i \in 1..Len(courses) |-> courses[i].start_min])
            max_end0 == SeqMax([i \in 1..Len(courses) |-> courses[i].end_min])
        IN <<Max(6 * 60, (min_start0 \div 60) * 60), Min(22 * 60, ((max_end0 + 59) \div 60) * 60)>>

\* _compute_time_bounds with the latest end rounded down to its hour
compute_time_bounds_end_floored(courses) ==
    IF courses = <<>> THEN <<8 * 60, 20 * 60>>
    ELSE
        LET min_start0 == SeqMin([i \in 1..Len(courses) |-> courses[i].start_min])
            max_end0 == SeqMax([i \in 1..Len(courses) |-> courses[i].end_min])
            min_start == Max(6 * 60, (min_start0 \div 60) * 60)
            max_end2 == Min(22 * 60, (max_end0 \div 60) * 60)
        IN <<min_start, IF max_end2 <= min_start THEN min_start + 60 ELSE max_end2>>

\* _compute_time_bounds
compute_time_bounds(courses) ==
    IF courses = <<>> THEN <<8 * 60, 20 * 60>>
    ELSE
        LET min_start0 == SeqMin([i \in 1..Len(courses) |-> courses[i].start_min])
            max_end0 == SeqMax([i \in 1..Len(courses) |-> courses[i].end_min])
            min_start1 == (min_start0 \div 60) * 60
            max_end1 == ((max_end0 + 59) \div 60) * 60
            min_start == Max(6 * 60, min_start1)
            max_end2 == Min(22 * 60, max_end1)
            max_end == IF max_end2 <= min_start THEN min_start + 60 ELSE max_end2
        IN <<min_start, max_end>>

\* the (subject, course, idx) triples in the order the two loops of _build_payload visit them
RECURSIVE EnumerateCourses(_, _, _)
EnumerateCourses(tt, si, ci) ==
    IF si > Len(tt) THEN <<>>
    ELSE IF ci > Len(tt[si].courses) THEN EnumerateCourses(tt, si + 1, 1)
    ELSE <<[subj |-> tt[si], course |-> tt[si].courses[ci], idx |-> ci - 1]>>
         \o EnumerateCourses(tt, si, ci + 1)

\* the key of courses.sort
SortKey(c) ==
    <<DayIndex(c.day), c.start_min, c.end_min, StrRank(c.subject_code), StrRank(c.course_code)>>

\* InsertByKey without the comparison of keys: the courses stay in the order of the loops
AppendUnsorted(sorted, c) == Append(sorted, c)

\* list.sort is stable: an element goes after every element whose key is not greater
RECURSIVE InsertByKey(_, _)
InsertByKey(sorted, c) ==
    IF sorted = <<>> THEN <<c>>
    ELSE IF TupleLess(SortKey(c), SortKey(Head(sorted))) THEN <<c>> \o sorted
    ELSE <<Head(sorted)>> \o InsertByKey(Tail(sorted), c)

RECURSIVE SortCourses(_)
SortCourses(cs) ==
    IF cs = <<>> THEN <<>>
    ELSE InsertByKey(SortCourses(SubSeq(cs, 1, Len(cs) - 1)), cs[Len(cs)])

\* the keys of the subjects dict, in insertion order
RECURSIVE SubjectKeys(_)
SubjectKeys(tt) ==
    IF tt = <<>> THEN <<>>
    ELSE LET rest == SubjectKeys(SubSeq(tt, 1, Len(tt) - 1))
             code == tt[Len(tt)].code
         IN IF code \in Range(rest) THEN rest ELSE Append(rest, code)

\* _build_payload: the payload, or the exception of the first course whose get_time raises
build_payload(tt) ==
    LET todo == EnumerateCourses(tt, 1, 1)
        bad == {i \in 1..Len(todo) : ~get_time(todo[i].course).ok}
    IN IF bad # {}
       THEN LET i == CHOOSE j \in bad : \A k \in bad : j <= k
            IN [ok |-> FALSE,
                raised |-> get_time(todo[i].course).raised,
                at |-> <<todo[i].subj.code, todo[i].course.code, todo[i].idx>>]
       ELSE LET courses == SortCourses([i \in 1..Len(todo) |->
                               course_to_dto(todo[i].subj, todo[i].course, todo[i].idx)])
                bounds == compute_time_bounds(courses)
            IN [ok |-> TRUE,
                meta |-> [startMin |-> bounds[1], endMin |-> bounds[2], days |-> DAYS_OF_WEEK],
                subjects |-> SubjectKeys(tt),
                courses |-> [i \in 1..Len(courses) |->
                              [id |-> courses[i].id,
                               subjectCode |-> courses[i].subject_code,
                               courseCode |-> courses[i].course_code,
                               day |-> courses[i].day,
                               startMin |-> courses[i].start_min,
                               endMin |-> courses[i].end_min]]]

(***************************************************************************)
(* visualize.py: the script of the generated page                          *)
(***************************************************************************)
\* <canvas id="tt" width="1100" height="720">
canvas == [width |-> 1100, height |-> 720]

layout == [pad |-> 18, headerH |-> 36, timeColW |-> 70, dayColW |-> 190,
           rowMinStep |-> 30, blockPad |-> 6, corner |-> 10]

\* the denominators of the scaled coordinates
YS(data) == data.meta.endMin - data.meta.startMin

XS(data) == LcmUpTo(Len(data.courses))

\* minuteToY, in 1/YS pixel: layout.pad + layout.headerH + t * usableH, t = (minute - START_MIN) / total
minuteToY(minute, data) ==
    LET usableH == canvas.height - layout.pad * 2 - layout.headerH
    IN (layout.pad + layout.headerH) * YS(data) + (minute - data.meta.startMin) * usableH

\* yToMinute measuring y from the top padding, the header left out
yToMinuteFromPad(y, data) ==
    LET usableH == canvas.height - layout.pad * 2 - layout.headerH
        total == data.meta.endMin - data.meta.startMin
    IN data.meta.startMin * YS(data) * usableH + (y - layout.pad * YS(data)) * total

\* yToMinute of a y in 1/YS pixel, in 1/(YS * usableH) minute:
\* START_MIN + t * total, t = (y - (layout.pad + layout.headerH)) / usableH
yToMinute(y, data) ==
    LET usableH == canvas.height - layout.pad * 2 - layout.headerH
        total == data.meta.endMin - data.meta.startMin
    IN data.meta.startMin * YS(data) * usableH
       + (y - (layout.pad + layout.headerH) * YS(data)) * total

\* the comparator of computeDayLanes' sort is negative
StartsBefore(a, b) ==
    \/ a.startMin < b.startMin
    \/ a.startMin = b.startMin /\ a.endMin < b.endMin

\* InsertByStart putting a course before the courses of its start and end
RECURSIVE InsertBeforeEqual(_, _)
InsertBeforeEqual(sorted, c) ==
    IF sorted = <<>> THEN <<c>>
    ELSE IF ~StartsBefore(Head(sorted), c) THEN <<c>> \o sorted
    ELSE <<Head(sorted)>> \o InsertBeforeEqual(Tail(sorted), c)

\* Array.prototype.sort is stable
RECURSIVE InsertByStart(_, _)
InsertByStart(sorted, c) ==
    IF sorted = <<>> THEN <<c>>
    ELSE IF StartsBefore(c, Head(sorted)) THEN <<c>> \o sorted
    ELSE <<Head(sorted)>> \o InsertByStart(Tail(sorted), c)

RECURSIVE SortByStart(_)
SortByStart(cs) ==
    IF cs = <<>> THEN <<>>
    ELSE InsertByStart(SortByStart(SubSeq(cs, 1, Len(cs) - 1)), cs[Len(cs)])

\* FirstLane with the course's end compared where its start belongs
FirstLaneByEnd(lanes, c) ==
    LET fit == {i \in 1..Len(lanes) : c.endMin >= lanes[i]}
    IN IF fit = {} THEN 0 ELSE CHOOSE i \in fit : \A j \in fit : i <= j

\* FirstLane taking the last lane the course fits
LastLane(lanes, c) ==
    LET fit == {i \in 1..Len(lanes) : c.startMin >= lanes[i]}
    IN IF fit = {} THEN 0 ELSE CHOOSE i \in fit : \A j \in fit : j <= i

\* FirstLane with a lane fitting only a course that starts after the lane's end
FirstLaneStrict(lanes, c) ==
    LET fit == {i \in 1..Len(lanes) : c.startMin > lanes[i]}
    IN IF fit = {} THEN 0 ELSE CHOOSE i \in fit : \A j \in fit : i <= j

\* the inner loop of computeDayLanes: the first lane (from 1) the course fits, 0 for the
\* script's -1
FirstLane(lanes, c) ==
    LET fit == {i \in 1..Len(lanes) : c.startMin >= lanes[i]}
    IN IF fit = {} THEN 0 ELSE CHOOSE i \in fit : \A j \in fit : i <= j

\* the outer loop of computeDayLanes, from the k-th course of sorted on; lanes are numbered
\* from 0 in placed, as in the script
RECURSIVE PlaceCourses(_, _, _, _)
PlaceCourses(sorted, k, lanes, placed) ==
    IF k > Len(sorted) THEN [lanes |-> lanes, placed |-> placed]
    ELSE LET c == sorted[k]
             laneIndex == FirstLane(lanes, c)
         IN IF laneIndex = 0
            THEN PlaceCourses(sorted, k + 1, Append(lanes, c.endMin),
                              Append(placed, [course |-> c, lane |-> Len(lanes)]))
            ELSE PlaceCourses(sorted, k + 1, [lanes EXCEPT ![laneIndex] = c.endMin],
                              Append(placed, [course |-> c, lane |-> laneIndex - 1]))

computeDayLanes(dayCourses) ==
    LET r == PlaceCourses(SortByStart(dayCourses), 1, <<>>, <<>>)
        laneCount == IF Len(r.lanes) = 0 THEN 1 ELSE Len(r.lanes)
    IN [i \in 1..Len(r.placed) |->
          [course |-> r.placed[i].course, lane |-> r.placed[i].lane, laneCount |-> laneCount]]

\* Array.prototype.filter
RECURSIVE Filter(_, _)
Filter(s, keep) ==
    IF s = <<>> THEN <<>>
    ELSE IF Head(s) \in keep THEN <<Head(s)>> \o Filter(Tail(s), keep)
    ELSE Filter(Tail(s), keep)

\* DayCourses without the test of visibleSubjects
DayCoursesHiddenToo(day, exportMode, data, visible, selected) ==
    LET dayCourses == Filter(data.courses, {c \in Range(data.courses) : c.day = day})
    IN IF exportMode
       THEN Filter(dayCourses, {c \in Range(dayCourses) : c.id \in selected})
       ELSE dayCourses

\* the courses drawCourses lays out in the column of day
DayCourses(day, exportMode, data, visible, selected) ==
    LET dayCourses == Filter(data.courses,
                             {c \in Range(data.courses) : c.day = day /\ c.subjectCode \in visible})
    IN IF exportMode
       THEN Filter(dayCourses, {c \in Range(dayCourses) : c.id \in selected})
       ELSE dayCourses

\* the rectangle drawCourses gives a placed course of column di (from 0): x, w in 1/XS
\* pixel and y, h in 1/YS pixel
Block(p, di, data) ==
    LET x0 == layout.pad + layout.timeColW
        yBottom == canvas.height - layout.pad
        dayX == x0 + di * layout.dayColW
        dayW == layout.dayColW
        c == p.course
        yStart == minuteToY(c.startMin, data)
        yEnd == minuteToY(c.endMin, data)
        laneGap == 6
        usableW == dayW - 2 * layout.blockPad
        laneW == (usableW - laneGap * (p.laneCount - 1)) * (XS(data) \div p.laneCount)
    IN [id |-> c.id,
        x |-> (dayX + layout.blockPad) * XS(data) + p.lane * (laneW + laneGap * XS(data)),
        y |-> Min((yBottom - 10) * YS(data), yStart + 1 * YS(data)),
        w |-> Max(30 * XS(data), laneW),
        h |-> Max(16 * YS(data), yEnd - yStart)]

\* the blocks drawCourses draws from column di on, in drawing order
RECURSIVE DrawDays(_, _, _, _, _)
DrawDays(di, exportMode, data, visible, selected) ==
    IF di >= Len(data.meta.days) THEN <<>>
    ELSE LET placed == computeDayLanes(
                           DayCourses(data.meta.days[di + 1], exportMode, data, visible, selected))
         IN [i \in 1..Len(placed) |-> Block(placed[i], di, data)]
            \o DrawDays(di + 1, exportMode, data, visible, selected)

\* drawCourses: what it paints on the current context and what it leaves in hitboxes
drawCourses(exportMode, data, visible, selected) ==
    LET blocks == DrawDays(0, exportMode, data, visible, selected)
    IN [painted |-> blocks,
        hitboxes |-> IF exportMode THEN <<>> ELSE blocks]

\* courseAtPoint, scanning from the i-th hitbox down; NoId is the script's null, kept as
\* the string that is as falsy as null and that no course has as its id
NoId == ""

RECURSIVE ScanHitboxes(_, _, _, _)
ScanHitboxes(boxes, i, x, y) ==
    IF i < 1 THEN NoId
    ELSE LET b == boxes[i]
         IN IF x >= b.x /\ x <= b.x + b.w /\ y >= b.y /\ y <= b.y + b.h
            THEN b.id
            ELSE ScanHitboxes(boxes, i - 1, x, y)

\* courseAtPoint scanning in drawing order: the first-drawn block wins
courseAtPointForward(boxes, x, y) ==
    LET hit == {i \in 1..Len(boxes) :
                   /\ x >= boxes[i].x /\ x <= boxes[i].x + boxes[i].w
                   /\ y >= boxes[i].y /\ y <= boxes[i].y + boxes[i].h}
    IN IF hit = {} THEN NoId ELSE boxes[CHOOSE i \in hit : \A j \in hit : i <= j].id

courseAtPoint(boxes, x, y) == ScanHitboxes(boxes, Len(boxes), x, y)

\* findCourseById found a course
findCourseById(id, data) == \E i \in 1..Len(data.courses) : data.courses[i].id = id

\* toggleSelection without the look-up of the course
toggleSelectionUnchecked(id, data, selected) ==
    IF id \in selected THEN selected \ {id} ELSE selected \cup {id}

\* toggleSelection that only ever selects
toggleSelectionAddOnly(id, data, selected) ==
    IF \E i \in 1..Len(data.courses) : data.courses[i].id = id
    THEN selected \cup {id}
    ELSE selected

\* the selection toggleSelection leaves
toggleSelection(id, data, selected) ==
    IF ~findCourseById(id, data) THEN selected
    ELSE IF id \in selected THEN selected \ {id}
    ELSE selected \cup {id}

(***************************************************************************)
(* Inputs.                                                                 *)
(***************************************************************************)
SubjectCodes == {"A", "B"}

CourseCodes == {"L"}

\* the codes a CSV of SpecLoad may hold: codes that hold the separator "__" of the ids
LoadSubjectCodes == {"A", "A__B"}

LoadCourseCodes == {"L", "B__L"}

\* the course times a CSV of Spec may hold: two sessions, back to back
CourseTimes == {TimeText("CS", 10, 0, 11, 0), TimeText("CS", 11, 0, 11, 30)}

\* the course times a CSV of SpecLoad may hold: sessions of two days, sessions that do not
\* end after they start, the day code SZ of the module docstring and the SZE of DAYS_OF_WEEK
LoadTimes ==
    {TimeText("CS", 10, 0, 11, 0), TimeText("P", 8, 10, 9, 5),
     TimeText("CS", 11, 0, 10, 0), TimeText("CS", 10, 0, 10, 0),
     TimeText("SZ", 10, 15, 12, 0), TimeText("SZE", 10, 15, 12, 0)}

\* the course times of SpecLayout: every session of day CS that starts and ends on a half
\* hour from 10:00 to 11:30 and ends after it starts
LayoutClock == {<<10, 0>>, <<10, 30>>, <<11, 0>>, <<11, 30>>}

LayoutTimes ==
    {TimeText("CS", s[1], s[2], e[1], e[2]) : s \in LayoutClock, e \in LayoutClock} \cap
    {t \in [day : {"CS"}, start : LayoutClock, end : LayoutClock] :
        to_minutes(from_string(t.start)) < to_minutes(from_string(t.end))}

\* the course times of SpecWindow: every session that starts at a time of WindowClock
\* (before 06:00, inside the day, after 22:00, on and off the hour) and ends at one that
\* is not earlier, and two sessions that end before they start
WindowClock ==
    {<<5, 0>>, <<5, 30>>, <<8, 10>>, <<9, 5>>, <<10, 0>>, <<22, 30>>, <<23, 0>>, <<23, 30>>}

WindowTimes ==
    {t \in {TimeText("CS", s[1], s[2], e[1], e[2]) : s \in WindowClock, e \in WindowClock} :
        to_minutes(from_string(t.start)) <= to_minutes(from_string(t.end))}
    \cup {TimeText("CS", 9, 5, 8, 10), TimeText("CS", 23, 30, 5, 0)}

\* the course times of SpecBlocks: the sessions of day CS between 08:00, 08:05, 08:10 and
\* 12:00 that end after they start: sessions of five and ten minutes in a window of hours
BlockClock == {<<8, 0>>, <<8, 5>>, <<8, 10>>, <<12, 0>>}

BlockTimes ==
    {t \in {TimeText("CS", s[1], s[2], e[1], e[2]) : s \in BlockClock, e \in BlockClock} :
        to_minutes(from_string(t.start)) < to_minutes(from_string(t.end))}

\* an id no course of a payload has
UnknownId == "?"

\* the points a click is tried at, in the units of the hitboxes: in every column that
\* holds a course, three offsets from the column's left edge at every half hour of the
\* window (one pixel below its grid line, where a block starting there begins and one
\* ending there ends), and the canvas origin
ClickPoints(data) ==
    {<<0, 0>>} \cup
    {<<(layout.pad + layout.timeColW + (DayIndex(c.day) - 1) * layout.dayColW + off) * XS(data),
       minuteToY(data.meta.startMin + 30 * k, data) + YS(data)>> :
        c \in Range(data.courses), off \in {30, 95, 150}, k \in 0..(YS(data) \div 30)}

(***************************************************************************)
(* State.                                                                  *)
(***************************************************************************)
NoSubject == [code |-> "", courses |-> <<>>, none |-> TRUE]

NoError == [ok |-> TRUE]

NoData == [ok |-> FALSE]

NoImage == [made |-> FALSE, painted |-> <<>>]

Snapshot(op, arg) ==
    [op |-> op, arg |-> arg, visible |-> visibleSubjects, selected |-> selectedCourseIds,
     hitboxes |-> hitboxes]

\* setStatus(`Selected classes: ${selectedCount}.`)
SelectedStatus(n) == [text |-> "Selected classes", n |-> n, danger |-> FALSE]

CoursesRead == Len(EnumerateCourses(timetable, 1, 1)) + Len(subject.courses)

Init ==
    /\ pc = "load"
    /\ subject = NoSubject
    /\ timetable = <<>>
    /\ error = NoError
    /\ DATA = NoData
    /\ visibleSubjects = {}
    /\ selectedCourseIds = {}
    /\ checked = [c \in {} |-> TRUE]
    /\ hitboxes = <<>>
    /\ statusText = [text |-> "Ready.", n |-> 0, danger |-> FALSE]
    /\ exported = NoImage
    /\ last = Snapshot("none", NoId)

scriptVars == <<DATA, visibleSubjects, selectedCourseIds, checked, hitboxes, statusText,
                exported, last>>

(***************************************************************************)
(* main.py: load_timetable_from_csv, one step per object it constructs.    *)
(***************************************************************************)
\* a row begins: Subject(subject_name, subject_code, credits)
ReadRow(code) ==
    /\ pc = "load"
    /\ subject = NoSubject
    /\ Len(timetable) < MaxRows
    /\ subject' = Subject(code)
    /\ UNCHANGED <<pc, timetable, error, scriptVars>>

\* a (code, time) pair of the row: Course(course_code, course_time); subject.add_course
ReadCourse(code, time) ==
    /\ pc = "load"
    /\ subject # NoSubject
    /\ CoursesRead < MaxCourses
    /\ subject' = add_course(subject, Course(code, time))
    /\ UNCHANGED <<pc, timetable, error, scriptVars>>

\* the row ends: timetable.add_subject(subject)
EndRow ==
    /\ pc = "load"
    /\ subject # NoSubject
    /\ timetable' = add_subject(timetable, subject)
    /\ subject' = NoSubject
    /\ UNCHANGED <<pc, error, scriptVars>>

(***************************************************************************)
(* visualize.py: generate_html and the page's start-up.                    *)
(***************************************************************************)
\* the state of the script after "Initial build": buildSidebar(); render()
OpenPage(data) ==
    /\ DATA' = data
    /\ visibleSubjects' = Range(data.subjects)
    /\ selectedCourseIds' = {}
    /\ checked' = [c \in Range(data.subjects) |-> TRUE]
    /\ hitboxes' = drawCourses(FALSE, data, Range(data.subjects), {}).hitboxes
    /\ statusText' = SelectedStatus(0)
    /\ exported' = NoImage
    /\ last' = Snapshot("open", NoId)

\* the file is read to its end; _build_payload runs and the page is written and opened
GenerateHtml ==
    /\ pc = "load"
    /\ subject = NoSubject
    /\ LET payload == build_payload(timetable)
       IN IF payload.ok
          THEN /\ pc' = "ui"
               /\ OpenPage(payload)
               /\ UNCHANGED <<subject, timetable, error>>
          ELSE /\ pc' = "error"
               /\ error' = [ok |-> FALSE, raised |-> payload.raised, in |-> "_course_to_dto",
                             at |-> payload.at]
               /\ UNCHANGED <<subject, timetable, scriptVars>>

(***************************************************************************)
(* The page's event handlers.                                              *)
(***************************************************************************)
\* render(): drawGrid(); drawCourses(); setStatus(...)
Render(visible, selected) ==
    /\ hitboxes' = drawCourses(FALSE, DATA, visible, selected).hitboxes
    /\ statusText' = SelectedStatus(Cardinality(selected))

\* the visible set the checkbox handler of subject code leaves, nowChecked being cb.checked
SetVisible(visible, code, nowChecked) ==
    IF nowChecked THEN visible \cup {code} ELSE visible \ {code}

\* the 'change' handler without its render()
CheckboxChangeNoRender(code) ==
    /\ pc = "ui"
    /\ code \in DOMAIN checked
    /\ checked' = [checked EXCEPT ![code] = ~checked[code]]
    /\ visibleSubjects' = SetVisible(visibleSubjects, code, checked'[code])
    /\ exported' = NoImage
    /\ last' = Snapshot("checkbox", code)
    /\ UNCHANGED <<pc, subject, timetable, error, DATA, selectedCourseIds, hitboxes, statusText>>

\* the 'change' handler, also deselecting the sessions of the subject
CheckboxChangeDeselecting(code) ==
    /\ pc = "ui"
    /\ code \in DOMAIN checked
    /\ checked' = [checked EXCEPT ![code] = ~checked[code]]
    /\ visibleSubjects' = SetVisible(visibleSubjects, code, checked'[code])
    /\ selectedCourseIds' =
          {id \in selectedCourseIds : \A c \in Range(DATA.courses) : c.id = id => c.subjectCode # code}
    /\ Render(visibleSubjects', selectedCourseIds')
    /\ exported' = NoImage
    /\ last' = Snapshot("checkbox", code)
    /\ UNCHANGED <<pc, subject, timetable, error, DATA>>

\* the user flips the checkbox of subject code: its 'change' handler
CheckboxChange(code) ==
    /\ pc = "ui"
    /\ code \in DOMAIN checked
    /\ checked' = [checked EXCEPT ![code] = ~checked[code]]
    /\ visibleSubjects' = SetVisible(visibleSubjects, code, checked'[code])
    /\ Render(visibleSubjects', selectedCourseIds)
    /\ exported' = NoImage
    /\ last' = Snapshot("checkbox", code)
    /\ UNCHANGED <<pc, subject, timetable, error, DATA, selectedCourseIds>>

\* toggleSelection(id), the body shared by a direct call and a click
DoToggleSelection(id) ==
    /\ selectedCourseIds' = toggleSelection(id, DATA, selectedCourseIds)
    /\ IF findCourseById(id, DATA)
       THEN Render(visibleSubjects, selectedCourseIds')
       ELSE UNCHANGED <<hitboxes, statusText>>

\* toggleSelection(id) called with any id
ToggleSelection(id) ==
    /\ pc = "ui"
    /\ DoToggleSelection(id)
    /\ exported' = NoImage
    /\ last' = Snapshot("toggleSelection", id)
    /\ UNCHANGED <<pc, subject, timetable, error, DATA, visibleSubjects, checked>>

\* the canvas 'click' handler, the pointer at (x, y)
CanvasClick(x, y) ==
    /\ pc = "ui"
    /\ LET id == courseAtPoint(hitboxes, x, y)
       IN /\ IF id # NoId
             THEN DoToggleSelection(id)
             ELSE UNCHANGED <<selectedCourseIds, hitboxes, statusText>>
          /\ last' = Snapshot("click", id)
    /\ exported' = NoImage
    /\ UNCHANGED <<pc, subject, timetable, error, DATA, visibleSubjects, checked>>

\* the 'click' handler of clearBtn
ClearClick ==
    /\ pc = "ui"
    /\ selectedCourseIds' = {}
    /\ Render(visibleSubjects, {})
    /\ exported' = NoImage
    /\ last' = Snapshot("clear", NoId)
    /\ UNCHANGED <<pc, subject, timetable, error, DATA, visibleSubjects, checked>>

\* the 'click' handler of exportBtn without its early return
ExportClickUnguarded ==
    /\ pc = "ui"
    /\ LET drawn == drawCourses(TRUE, DATA, visibleSubjects, selectedCourseIds)
       IN /\ hitboxes' = drawn.hitboxes
          /\ exported' = [made |-> TRUE, painted |-> drawn.painted]
          /\ statusText' = [text |-> "Exported PNG.", n |-> 0, danger |-> FALSE]
    /\ last' = Snapshot("export", NoId)
    /\ UNCHANGED <<pc, subject, timetable, error, DATA, visibleSubjects, selectedCourseIds,
                   checked>>

\* the 'click' handler of exportBtn
ExportClick ==
    /\ pc = "ui"
    /\ IF Cardinality(selectedCourseIds) = 0
       THEN /\ statusText' = [text |-> "Nothing selected to export.", n |-> 0, danger |-> TRUE]
            /\ exported' = NoImage
            /\ UNCHANGED hitboxes
       ELSE LET drawn == drawCourses(TRUE, DATA, visibleSubjects, selectedCourseIds)
            IN /\ hitboxes' = drawn.hitboxes
               /\ exported' = [made |-> TRUE, painted |-> drawn.painted]
               /\ statusText' = [text |-> "Exported PNG.", n |-> 0, danger |-> FALSE]
    /\ last' = Snapshot("export", NoId)
    /\ UNCHANGED <<pc, subject, timetable, error, DATA, visibleSubjects, selectedCourseIds,
                   checked>>

\* the ids and the points the events of an open page are tried with
KnownIds == IF pc = "ui" THEN {c.id : c \in Range(DATA.courses)} ELSE {}

Points == IF pc = "ui" THEN ClickPoints(DATA) ELSE {}

\* the subject codes no row read so far has
FreshCodes == {code \in SubjectCodes : \A i \in 1..Len(timetable) : timetable[i].code # code}

\* a CSV of back-to-back sessions, its rows of distinct subject codes, is loaded and the
\* page is used
Next ==
    \/ \E code \in FreshCodes : ReadRow(code)
    \/ \E code \in CourseCodes, time \in CourseTimes : ReadCourse(code, time)
    \/ EndRow
    \/ GenerateHtml
    \/ \E code \in SubjectCodes : CheckboxChange(code)
    \/ \E id \in KnownIds \cup {UnknownId} : ToggleSelection(id)
    \/ \E pt \in Points : CanvasClick(pt[1], pt[2])
    \/ ClearClick
    \/ ExportClick

Spec == Init /\ [][Next]_vars

\* any CSV of LoadTimes is loaded, rows of the same subject code included, and the page
\* generated
NextLoad ==
    \/ \E code \in LoadSubjectCodes : ReadRow(code)
    \/ \E code \in LoadCourseCodes, time \in LoadTimes : ReadCourse(code, time)
    \/ EndRow
    \/ GenerateHtml

SpecLoad == Init /\ [][NextLoad]_vars

\* the timetables of SpecLayout: subjects A and B with at most LayoutCourses sessions in all
CourseLists(n) == UNION {[1..k -> {Course("L", t) : t \in LayoutTimes}] : k \in 0..n}

LayoutTimetable(ca, cb) == <<[code |-> "A", courses |-> ca], [code |-> "B", courses |-> cb]>>

\* the page of a timetable of overlapping sessions has just been opened
InitLayout ==
    \E ca \in CourseLists(LayoutCourses) :
      \E cb \in CourseLists(LayoutCourses - Len(ca)) :
        LET tt == LayoutTimetable(ca, cb) IN
        /\ pc = "ui"
        /\ subject = NoSubject
        /\ timetable = tt
        /\ error = NoError
        /\ DATA = build_payload(tt)
        /\ visibleSubjects = Range(DATA.subjects)
        /\ selectedCourseIds = {}
        /\ checked = [c \in Range(DATA.subjects) |-> TRUE]
        /\ hitboxes = drawCourses(FALSE, DATA, visibleSubjects, {}).hitboxes
        /\ statusText = SelectedStatus(0)
        /\ exported = NoImage
        /\ last = [op |-> "open", arg |-> NoId, visible |-> {}, selected |-> {},
                   hitboxes |-> <<>>]

\* subjects are shown and hidden
NextLayout == \E code \in SubjectCodes : CheckboxChange(code)

SpecLayout == InitLayout /\ [][NextLayout]_vars

\* the course lists of SpecWindow: at most n sessions of WindowTimes
WindowLists(n) == UNION {[1..k -> {Course("L", t) : t \in WindowTimes}] : k \in 0..n}

\* a CSV of one row, its sessions anywhere in the day, has been read
InitWindow ==
    \E cs \in WindowLists(WindowCourses) :
        /\ pc = "load"
        /\ subject = NoSubject
        /\ timetable = <<[code |-> "A", courses |-> cs]>>
        /\ error = NoError
        /\ DATA = NoData
        /\ visibleSubjects = {}
        /\ selectedCourseIds = {}
        /\ checked = [c \in {} |-> TRUE]
        /\ hitboxes = <<>>
        /\ statusText = [text |-> "Ready.", n |-> 0, danger |-> FALSE]
        /\ exported = NoImage
        /\ last = Snapshot("none", NoId)

\* the page is generated
NextWindow == GenerateHtml

SpecWindow == InitWindow /\ [][NextWindow]_vars

\* the course lists of SpecBlocks: at most n sessions of BlockTimes
BlockLists(n) == UNION {[1..k -> {Course("L", t) : t \in BlockTimes}] : k \in 0..n}

\* the page of a timetable of short and long sessions has just been opened
InitBlocks ==
    \E ca \in BlockLists(BlockCourses) :
      \E cb \in BlockLists(BlockCourses - Len(ca)) :
        LET tt == LayoutTimetable(ca, cb) IN
        /\ pc = "ui"
        /\ subject = NoSubject
        /\ timetable = tt
        /\ error = NoError
        /\ DATA = build_payload(tt)
        /\ visibleSubjects = Range(DATA.subjects)
        /\ selectedCourseIds = {}
        /\ checked = [c \in Range(DATA.subjects) |-> TRUE]
        /\ hitboxes = drawCourses(FALSE, DATA, visibleSubjects, {}).hitboxes
        /\ statusText = SelectedStatus(0)
        /\ exported = NoImage
        /\ last = [op |-> "open", arg |-> NoId, visible |-> {}, selected |-> {},
                   hitboxes |-> <<>>]

\* subjects are shown and hidden
NextBlocks == \E code \in SubjectCodes : CheckboxChange(code)

SpecBlocks == InitBlocks /\ [][NextBlocks]_vars

(***************************************************************************)
(* Properties.                                                             *)
(***************************************************************************)
\* the lanes the interactive drawCourses computes for a day in the current state
Placed(day) == computeDayLanes(DayCourses(day, FALSE, DATA, visibleSubjects, selectedCourseIds))

Days == Range(DAYS_OF_WEEK)

\* the indices of the hitboxes of boxes that contain the point
Containing(boxes, pt) ==
    {i \in 1..Len(boxes) :
        /\ boxes[i].x <= pt[1] /\ pt[1] <= boxes[i].x + boxes[i].w
        /\ boxes[i].y <= pt[2] /\ pt[2] <= boxes[i].y + boxes[i].h}

\* every course object main.py has constructed and stored so far
StoredCourses ==
    Range(subject.courses) \cup UNION {Range(timetable[i].courses) : i \in 1..Len(timetable)}

\* C1: whatever subjects are visible, two sessions of valid times (start < end) that
\* computeDayLanes puts in the same lane of a day do not overlap in time.
C1_SameLaneNoOverlap ==
    pc = "ui" =>
        \A day \in Days :
            LET placed == Placed(day) IN
            (\A i \in 1..Len(placed) : placed[i].course.startMin < placed[i].course.endMin) =>
                \A i, j \in 1..Len(placed) :
                    (i # j /\ placed[i].lane = placed[j].lane) =>
                        \/ placed[i].course.startMin >= placed[j].course.endMin
                        \/ placed[j].course.startMin >= placed[i].course.endMin

\* C1 witness: with a subject hidden, a day of three visible sessions is packed into two
\* lanes, one lane holding two of them.
C1_Witness ==
    /\ pc = "ui"
    /\ visibleSubjects # DOMAIN checked
    /\ \E day \in Days :
          LET placed == Placed(day) IN
          /\ Len(placed) >= 3
          /\ \E i, j \in 1..Len(placed) : i # j /\ placed[i].lane = placed[j].lane
          /\ \E i \in 1..Len(placed) : placed[i].laneCount = 2

\* C2: an export with a non-empty selection leaves the visible set, the selection and the
\* hitboxes as they were, so every point hit-tests to the same id after it as before it.
C2_ExportKeepsInteractiveState ==
    (last.op = "export" /\ last.selected # {}) =>
        /\ visibleSubjects = last.visible
        /\ selectedCourseIds = last.selected
        /\ hitboxes = last.hitboxes
        /\ \A pt \in Points :
              courseAtPoint(hitboxes, pt[1], pt[2]) = courseAtPoint(last.hitboxes, pt[1], pt[2])

\* C3: an export with nothing selected downloads no image, reports "nothing selected" as
\* an error and leaves the visible set, the selection and the hitboxes as they were.
C3_EmptyExportIsNoOp ==
    (last.op = "export" /\ last.selected = {}) =>
        /\ ~exported.made
        /\ statusText = [text |-> "Nothing selected to export.", n |-> 0, danger |-> TRUE]
        /\ visibleSubjects = last.visible
        /\ selectedCourseIds = last.selected
        /\ hitboxes = last.hitboxes

\* C3 witness: the export button was pressed with nothing selected while blocks were on
\* the canvas.
C3_Witness ==
    /\ last.op = "export"
    /\ last.selected = {}
    /\ last.hitboxes # <<>>
    /\ statusText.danger

\* C4: the sessions an export paints are exactly the selected ones.
C4_ExportPaintsSelection ==
    exported.made =>
        {exported.painted[i].id : i \in 1..Len(exported.painted)} = selectedCourseIds

\* C5: the checkbox handler leaves the selection as it was, and an id leaves the selection
\* only by toggleSelection (called or by a click) or by clearing.
C5_VisibilityKeepsSelection ==
    [][/\ (last'.op = "checkbox" => selectedCourseIds' = selectedCourseIds)
       /\ (~(selectedCourseIds \subseteq selectedCourseIds') =>
              last'.op \in {"toggleSelection", "click", "clear"})]_vars

\* C5 witness: a subject has just been hidden while one of its sessions is selected.
C5_Witness ==
    /\ last.op = "checkbox"
    /\ last.arg \notin visibleSubjects
    /\ \E c \in Range(DATA.courses) : c.id \in selectedCourseIds /\ c.subjectCode = last.arg

\* a record of last says that toggleSelection ran with an id
Toggled(l) == l.op = "toggleSelection" \/ (l.op = "click" /\ l.arg # NoId)

\* C6: toggleSelection(id) right after toggleSelection(id) brings back the selection the
\* first call started from, and the visible set is the same throughout.
C6_ToggleSelectionTwice ==
    [][(Toggled(last) /\ Toggled(last') /\ last'.arg = last.arg) =>
          /\ selectedCourseIds' = last.selected
          /\ visibleSubjects' = last.visible
          /\ visibleSubjects = last.visible]_vars

\* C6 witness: toggleSelection has just deselected an id of a hidden subject that an
\* earlier call selected, other ids staying selected.
C6_Witness ==
    /\ last.op = "toggleSelection"
    /\ last.arg \in last.selected
    /\ last.arg \notin selectedCourseIds
    /\ \E c \in Range(DATA.courses) : c.id = last.arg /\ c.subjectCode \notin visibleSubjects
    /\ selectedCourseIds # {}

\* C7: flipping the same checkbox twice in a row brings back the visible set, the lanes of
\* every visible session and the hitboxes the first flip started from.
C7_CheckboxTwice ==
    [][(last.op = "checkbox" /\ last'.op = "checkbox" /\ last'.arg = last.arg) =>
          /\ visibleSubjects' = last.visible
          /\ \A day \in Days :
                computeDayLanes(DayCourses(day, FALSE, DATA, visibleSubjects', selectedCourseIds'))
                = computeDayLanes(DayCourses(day, FALSE, DATA, last.visible, last.selected))
          /\ hitboxes' = last.hitboxes]_vars

\* C8: courseAtPoint returns the id of the last-drawn hitbox that contains the point, and
\* null exactly when no hitbox contains it.
C8_TopmostWins ==
    \A pt \in Points :
        LET hit == Containing(hitboxes, pt)
            id == courseAtPoint(hitboxes, pt[1], pt[2])
        IN /\ (id = NoId) <=> (hit = {})
           /\ hit # {} => id = hitboxes[CHOOSE i \in hit : \A j \in hit : j <= i].id

\* C8 witness: a sampled point lies in two hitboxes of different ids.
C8_Witness ==
    \E pt \in Points :
        \E i, j \in Containing(hitboxes, pt) : i < j /\ hitboxes[i].id # hitboxes[j].id

\* C9: no session whose start is not before its end exists, neither as a Course of the
\* schedule model nor as a course of the payload.
C9_NoInvalidSession ==
    /\ \A c \in StoredCourses :
          to_minutes(from_string(c.time.start)) < to_minutes(from_string(c.time.end))
    /\ pc = "ui" => \A i \in 1..Len(DATA.courses) :
                        DATA.courses[i].startMin < DATA.courses[i].endMin

\* C10: a course time is validated when the Course is constructed: no Course with an
\* unrecognised day code is ever stored in a Subject, and no time is first found
\* malformed when _course_to_dto reads it.
C10_ValidatedAtConstruction ==
    /\ \A c \in StoredCourses : c.time.day \in Range(DAYS_OF_WEEK)
    /\ error.ok

\* the day codes the module docstring of visualize.py gives for a course time
DocumentedDays == {"H", "K", "SZ", "CS", "P"}

\* C11: a course time whose day is one of the documented codes H, K, SZ, CS, P is accepted
\* and yields a session on that day, and generation is refused only for a day code outside
\* the documented set.
C11_DocumentedDaysAccepted ==
    /\ \A c \in StoredCourses :
          c.time.day \in DocumentedDays => (get_time(c).ok /\ get_time(c).day = c.time.day)
    /\ pc = "error" => \E c \in StoredCourses : c.time.day \notin DocumentedDays
    /\ pc = "ui" => \A c \in StoredCourses :
                        \E i \in 1..Len(DATA.courses) : DATA.courses[i].day = c.time.day

\* C12: the courses of one payload have pairwise distinct ids, whatever timetable the
\* builder accepted.
C12_IdsDistinct ==
    pc = "ui" =>
        \A i, j \in 1..Len(DATA.courses) : i # j => DATA.courses[i].id # DATA.courses[j].id

\* the payload course a is not after b in the order (day ordinal, start, end, subject code,
\* course code)
KeyNotAfter(a, b) ==
    \/ DayIndex(a.day) < DayIndex(b.day)
    \/ /\ a.day = b.day
       /\ \/ a.startMin < b.startMin
          \/ /\ a.startMin = b.startMin
             /\ \/ a.endMin < b.endMin
                \/ /\ a.endMin = b.endMin
                   /\ \/ StrRank(a.subjectCode) < StrRank(b.subjectCode)
                      \/ /\ a.subjectCode = b.subjectCode
                         /\ StrRank(a.courseCode) <= StrRank(b.courseCode)

\* C13: the courses of the payload are in the order of the key (day ordinal, start, end,
\* subject code, course code): each is not after its successor.
C13_CoursesSorted ==
    pc = "ui" =>
        \A i \in 1..(Len(DATA.courses) - 1) : KeyNotAfter(DATA.courses[i], DATA.courses[i + 1])

\* C13 witness: two sessions of the same day, start and end were read in the other order
\* than the payload holds them, the subject code deciding.
C13_Witness ==
    /\ pc = "ui"
    /\ Len(DATA.courses) >= 2
    /\ Len(timetable) >= 2
    /\ DATA.courses[1].subjectCode # timetable[1].code
    /\ DATA.courses[2].subjectCode = timetable[1].code
    /\ DATA.courses[1].day = DATA.courses[2].day
    /\ DATA.courses[1].startMin = DATA.courses[2].startMin
    /\ DATA.courses[1].endMin = DATA.courses[2].endMin

\* C14: whatever sessions the timetable holds (none, sessions entirely before 06:00 or
\* after 22:00, sessions that end before they start), the window of the payload ends after
\* it starts.
C14_WindowPositive ==
    pc = "ui" => DATA.meta.endMin > DATA.meta.startMin

\* C14 witness: every session of the payload lies after 22:00, and the window is the hour
\* from its start.
C14_Witness ==
    /\ pc = "ui"
    /\ DATA.courses # <<>>
    /\ \A c \in Range(DATA.courses) : c.startMin >= 22 * 60 /\ c.startMin < c.endMin
    /\ DATA.meta.endMin = DATA.meta.startMin + 60

\* the earliest start and the latest end of the payload's courses
EarliestStart(data) ==
    CHOOSE m \in {c.startMin : c \in Range(data.courses)} :
        \A c \in Range(data.courses) : m <= c.startMin

LatestEnd(data) ==
    CHOOSE m \in {c.endMin : c \in Range(data.courses)} :
        \A c \in Range(data.courses) : c.endMin <= m

\* a minute floored, and ceiled, to its hour
FloorHour(m) == m - (m % 60)

CeilHour(m) == IF m % 60 = 0 THEN m ELSE m + (60 - (m % 60))

\* C15 as stated: with no sessions the window is 08:00-20:00, otherwise it starts at the
\* earliest start floored to its hour and ends at the latest end ceiled to its hour.
C15_WindowIsRoundedExtent ==
    pc = "ui" =>
        IF DATA.courses = <<>>
        THEN DATA.meta.startMin = 480 /\ DATA.meta.endMin = 1200
        ELSE /\ DATA.meta.startMin = FloorHour(EarliestStart(DATA))
             /\ DATA.meta.endMin = CeilHour(LatestEnd(DATA))

\* C15 amended: with no sessions the window is 08:00-20:00; otherwise it starts at the
\* later of 06:00 and the earliest start floored to its hour, and it ends at the earlier
\* of 22:00 and the latest end ceiled to its hour, or, when that is not after the window's
\* start, one hour after the window's start.
C15_WindowIsClampedExtent ==
    pc = "ui" =>
        IF DATA.courses = <<>>
        THEN DATA.meta.startMin = 480 /\ DATA.meta.endMin = 1200
        ELSE LET lo == FloorHour(EarliestStart(DATA))
                 hi == CeilHour(LatestEnd(DATA))
                 start == IF lo < 360 THEN 360 ELSE lo
                 end == IF hi > 1320 THEN 1320 ELSE hi
             IN /\ DATA.meta.startMin = start
                /\ DATA.meta.endMin = IF end > start THEN end ELSE start + 60

\* C15 witness: a session starts before 06:00 and another ends off the hour inside the
\* day: the window starts at 06:00 and ends at the next full hour.
C15_Witness ==
    /\ pc = "ui"
    /\ DATA.courses # <<>>
    /\ EarliestStart(DATA) < 360
    /\ DATA.meta.startMin = 360
    /\ LatestEnd(DATA) % 60 # 0
    /\ DATA.meta.endMin = CeilHour(LatestEnd(DATA))

\* C16: the window of a timetable that holds a session lies inside 06:00-22:00.
C16_WindowInsideDay ==
    (pc = "ui" /\ DATA.courses # <<>>) =>
        /\ 360 <= DATA.meta.startMin
        /\ DATA.meta.endMin <= 1320

\* the minutes minuteToY is tried at: midnight to midnight by the hour, the window's ends
\* and the minute after its start, and the starts and ends of the courses
SampleMinutes(data) ==
    {60 * h : h \in 0..24}
    \cup {data.meta.startMin, data.meta.startMin + 1, data.meta.endMin}
    \cup {c.startMin : c \in Range(data.courses)} \cup {c.endMin : c \in Range(data.courses)}

\* C17: for every window the builder produces the pixel coordinates have a positive
\* denominator, minuteToY is strictly increasing in the minute, and yToMinute brings
\* minuteToY(m) back to m, inside and outside the window.
C17_MinuteToYMonotonicInvertible ==
    pc = "ui" =>
        LET usableH == canvas.height - layout.pad * 2 - layout.headerH IN
        /\ YS(DATA) > 0
        /\ \A m1, m2 \in SampleMinutes(DATA) :
              m1 < m2 => minuteToY(m1, DATA) < minuteToY(m2, DATA)
        /\ \A m \in SampleMinutes(DATA) :
              yToMinute(minuteToY(m, DATA), DATA) = m * YS(DATA) * usableH

\* C17 witness: a session starts before the window and ends after it, so that minutes
\* outside the window are mapped.
C17_Witness ==
    /\ pc = "ui"
    /\ \E c \in Range(DATA.courses) :
          /\ c.startMin < DATA.meta.startMin
          /\ c.endMin > DATA.meta.endMin
          /\ minuteToY(c.startMin, DATA) < (layout.pad + layout.headerH) * YS(DATA)

\* C18: toggleSelection called with an id no course of the payload has raises nothing and
\* leaves the selection, the visible set and the hitboxes as they were; and the selection
\* only ever holds ids of courses of the payload.
C18_UnknownIdIsNoOp ==
    /\ (last.op = "toggleSelection" /\ last.arg \notin KnownIds) =>
          /\ pc = "ui"
          /\ error = NoError
          /\ selectedCourseIds = last.selected
          /\ visibleSubjects = last.visible
          /\ hitboxes = last.hitboxes
    /\ selectedCourseIds \subseteq KnownIds

\* C18 witness: toggleSelection has just been called with an unknown id while a session
\* was selected and blocks were on the canvas.
C18_Witness ==
    /\ last.op = "toggleSelection"
    /\ last.arg = UnknownId
    /\ last.arg \notin KnownIds
    /\ last.selected # {}
    /\ last.hitboxes # <<>>

\* the lanes of the candidates placed before the k-th, the end of the last of them in
\* lane l, and the lanes among them the k-th fits
LanesBefore(placed, k) == {placed[i].lane : i \in 1..(k - 1)}

TrackedEnd(placed, k, l) ==
    LET in == {i \in 1..(k - 1) : placed[i].lane = l}
    IN placed[CHOOSE i \in in : \A j \in in : j <= i].course.endMin

FittingLanes(placed, k) ==
    {l \in LanesBefore(placed, k) : TrackedEnd(placed, k, l) <= placed[k].course.startMin}

\* C19: the candidates of a day are placed in the order of (start, end); each goes to the
\* lowest lane whose last candidate has ended by its start, or else to a new lane of the
\* next index; and every candidate records the number of lanes opened, above its lane.
C19_FirstFitLanes ==
    pc = "ui" =>
        \A day \in Days :
            LET placed == Placed(day) IN
            /\ \A k \in 1..(Len(placed) - 1) :
                  \/ placed[k].course.startMin < placed[k + 1].course.startMin
                  \/ /\ placed[k].course.startMin = placed[k + 1].course.startMin
                     /\ placed[k].course.endMin <= placed[k + 1].course.endMin
            /\ \A k \in 1..Len(placed) :
                  LET fit == FittingLanes(placed, k) IN
                  /\ placed[k].lane =
                        IF fit = {} THEN Cardinality(LanesBefore(placed, k))
                        ELSE CHOOSE l \in fit : \A m \in fit : l <= m
                  /\ placed[k].laneCount = Cardinality(LanesBefore(placed, Len(placed) + 1))
                  /\ placed[k].lane < placed[k].laneCount

\* C19 witness: with a subject hidden, a candidate that fits two lanes has been put in the
\* first, after another candidate opened the second.
C19_Witness ==
    /\ pc = "ui"
    /\ last.op = "checkbox"
    /\ visibleSubjects # DOMAIN checked
    /\ \E day \in Days :
          LET placed == Placed(day) IN
          \E k \in 1..Len(placed) :
              /\ Cardinality(FittingLanes(placed, k)) >= 2
              /\ placed[k].lane = 0
              /\ placed[k].laneCount = 2

\* the most recent event ended with render()
Rendered ==
    \/ last.op \in {"open", "checkbox", "clear"}
    \/ last.op = "toggleSelection" /\ last.arg \in KnownIds
    \/ last.op = "click" /\ last.arg # NoId

\* the indices of the payload's courses whose subject is visible
VisibleIndices == {i \in 1..Len(DATA.courses) : DATA.courses[i].subjectCode \in visibleSubjects}

\* C20: after an event that renders (a checkbox flipped, a selection toggled, the
\* selection cleared) the hitboxes are one per course of a visible subject and none for a
\* hidden one, in the order the payload holds these courses.
C20_HitboxesAreVisibleCourses ==
    (pc = "ui" /\ Rendered) =>
        /\ Len(hitboxes) = Cardinality(VisibleIndices)
        /\ \A k \in 1..Len(hitboxes) :
              \E i \in VisibleIndices :
                  /\ hitboxes[k].id = DATA.courses[i].id
                  /\ Cardinality({j \in VisibleIndices : j < i}) = k - 1

\* C20 witness: a selection was toggled while a subject was hidden and two sessions of
\* the same start and end were visible.
C20_Witness ==
    /\ pc = "ui"
    /\ last.op \in {"toggleSelection", "click"}
    /\ Rendered
    /\ visibleSubjects # DOMAIN checked
    /\ \E i, j \in VisibleIndices :
          /\ i < j
          /\ DATA.courses[i].startMin = DATA.courses[j].startMin
          /\ DATA.courses[i].endMin = DATA.courses[j].endMin

\* the rectangles the interactive drawCourses draws in the column of day, in drawing order
Blocks(day) ==
    LET placed == Placed(day)
    IN [i \in 1..Len(placed) |-> Block(placed[i], DayIndex(day) - 1, DATA)]

\* two rectangles share an area (a common edge alone is not one)
Intersect(a, b) ==
    /\ a.x < b.x + b.w /\ b.x < a.x + a.w
    /\ a.y < b.y + b.h /\ b.y < a.y + a.h

\* C21: whatever subjects are visible, the rectangles drawCourses computes for two
\* distinct sessions of the same day do not intersect.
C21_BlocksDisjoint ==
    pc = "ui" =>
        \A day \in Days :
            LET blocks == Blocks(day) IN
            \A i, j \in 1..Len(blocks) : i # j => ~Intersect(blocks[i], blocks[j])

\* the payload is the one of the scenario: subject A at CS 10:00-11:00 and subject B at
\* CS 10:30-11:30, and nothing else
TwoOverlapping ==
    /\ Len(DATA.courses) = 2
    /\ DATA.courses[1].subjectCode = "A" /\ DATA.courses[2].subjectCode = "B"
    /\ DATA.courses[1].day = "CS" /\ DATA.courses[2].day = "CS"
    /\ DATA.courses[1].startMin = 600 /\ DATA.courses[1].endMin = 660
    /\ DATA.courses[2].startMin = 630 /\ DATA.courses[2].endMin = 690

\* C22: the lanes of a day are computed from the sessions of visible subjects alone,
\* anew at every change of visibility: the candidates of a day are exactly its visible
\* sessions and the hitboxes are their blocks; in the scenario, both subjects visible give
\* two lanes, one session in each, drawn half as wide, and B hidden gives one lane with
\* the session of A alone, drawn over the whole column.
C22_LanesFromVisibleOnly ==
    pc = "ui" =>
        /\ \A day \in Days :
              LET placed == Placed(day) IN
              /\ {placed[k].course : k \in 1..Len(placed)}
                    = {DATA.courses[i] : i \in {j \in VisibleIndices : DATA.courses[j].day = day}}
              /\ Len(placed) = Cardinality({j \in VisibleIndices : DATA.courses[j].day = day})
              /\ \A k \in 1..Len(placed) :
                    \E b \in Range(hitboxes) : b = Block(placed[k], DayIndex(day) - 1, DATA)
        /\ Len(hitboxes) = Cardinality(VisibleIndices)
        /\ (TwoOverlapping /\ visibleSubjects = {"A", "B"}) =>
              LET placed == Placed("CS") IN
              /\ Len(placed) = 2
              /\ placed[1].course = DATA.courses[1] /\ placed[1].lane = 0
              /\ placed[2].course = DATA.courses[2] /\ placed[2].lane = 1
              /\ placed[1].laneCount = 2 /\ placed[2].laneCount = 2
              /\ hitboxes[1].w = 86 * XS(DATA) /\ hitboxes[2].w = 86 * XS(DATA)
              /\ hitboxes[2].x = hitboxes[1].x + (86 + 6) * XS(DATA)
        /\ (TwoOverlapping /\ visibleSubjects = {"A"}) =>
              LET placed == Placed("CS") IN
              /\ Len(placed) = 1
              /\ placed[1].course = DATA.courses[1]
              /\ placed[1].lane = 0 /\ placed[1].laneCount = 1
              /\ Len(hitboxes) = 1
              /\ hitboxes[1].id = DATA.courses[1].id
              /\ hitboxes[1].w = (layout.dayColW - 2 * layout.blockPad) * XS(DATA)

\* C22 witness: in the scenario, with both subjects visible and two hitboxes on the
\* canvas, the checkbox of B has just been cleared.
C22_Witness ==
    /\ pc = "ui"
    /\ TwoOverlapping
    /\ last.op = "checkbox"
    /\ last.arg = "B"
    /\ last.visible = {"A", "B"}
    /\ Len(last.hitboxes) = 2
    /\ visibleSubjects = {"A"}

\* the largest number of the candidates that are running at one instant; it is reached
\* at the start of one of them
MaxRunning(placed) ==
    LET running(t) == Cardinality({i \in 1..Len(placed) :
                          placed[i].course.startMin <= t /\ t < placed[i].course.endMin})
        counts == {running(placed[k].course.startMin) : k \in 1..Len(placed)} \cup {0}
    IN CHOOSE n \in counts : \A m \in counts : m <= n

\* C23: for sessions that end after they start, the number of lanes computeDayLanes opens
\* for a day is the largest number of the day's visible sessions running at one instant,
\* and it is the lane count every candidate of the day records.
C23_LaneCountIsMaxRunning ==
    pc = "ui" =>
        \A day \in Days :
            LET placed == Placed(day) IN
            (\A k \in 1..Len(placed) : placed[k].course.startMin < placed[k].course.endMin) =>
                /\ Cardinality({placed[k].lane : k \in 1..Len(placed)}) = MaxRunning(placed)
                /\ \A k \in 1..Len(placed) : placed[k].laneCount = MaxRunning(placed)

\* C23 witness: with a subject hidden, three visible sessions of a day, never more than
\* two of them running at once, are in two lanes, a session following another in its lane
\* at the minute that one ends.
C23_Witness ==
    /\ pc = "ui"
    /\ last.op = "checkbox"
    /\ \E day \in Days :
          LET placed == Placed(day) IN
          /\ Len(placed) = 3
          /\ MaxRunning(placed) = 2
          /\ \E i, j \in 1..Len(placed) :
                /\ placed[i].lane = placed[j].lane
                /\ placed[i].course.endMin = placed[j].course.startMin

\* id is the id of a course of the payload whose subject is in visible
VisibleId(id, visible) ==
    \E c \in Range(DATA.courses) : c.id = id /\ c.subjectCode \in visible

\* C24: whatever visibility toggles, clicks, clears and exports came before, every hitbox
\* is the rectangle of a course of the payload whose subject is visible, and a canvas
\* click changes the selection by at most one id, the id of a course whose subject is
\* visible when the click is made.
C24_ClicksToggleVisibleOnly ==
    pc = "ui" =>
        /\ \A k \in 1..Len(hitboxes) : VisibleId(hitboxes[k].id, visibleSubjects)
        /\ last.op = "click" =>
              /\ visibleSubjects = last.visible
              /\ \/ selectedCourseIds = last.selected
                 \/ /\ VisibleId(last.arg, last.visible)
                    /\ (selectedCourseIds \ last.selected) \cup (last.selected \ selectedCourseIds)
                          = {last.arg}

\* C24 witness: a click has just changed the selection while a subject with a session
\* was hidden and a session of that subject was selected.
C24_Witness ==
    /\ pc = "ui"
    /\ last.op = "click"
    /\ selectedCourseIds # last.selected
    /\ \E c \in Range(DATA.courses) :
          c.subjectCode \notin visibleSubjects /\ c.id \in last.selected

====
